---- MODULE Spec2Model ----
(***************************************************************************)
(* generate_dataset_script.py: the meteoblue feed is merged with cloud     *)
(* cover computed from sky-camera images at t, t+5m and t+10m.             *)
(*                                                                         *)
(* Strings are sequences of one-character strings, so that slicing,        *)
(* parsing, formatting and suffix tests are computed character by          *)
(* character as the Python code computes them.  A csv row is a sequence of *)
(* cells (strings).                                                        *)
(***************************************************************************)
EXTENDS Integers, Sequences, FiniteSets, TLC

VARIABLES
  pc,          \* position of main() in the current run
  run,         \* number of the current run of the script
  dirExists,   \* whether the directory SKY_IMAGE_DIR exists on disk
  files,       \* directory content: file name -> image content
  feed,        \* rows of Data/meteoblue_data.csv as csv.reader yields them
  idx,         \* rows of the feed consumed by the for-loop in this run
  output,      \* rows written to training_data_with_cloud_cover.csv
  wfile,       \* handle of the output file: "unopened", "open", "closed"
  csv_file,    \* handle of the feed file: "unopened", "open", "closed"
  listed,      \* what os.listdir returned in _ensure_images_downloaded
  has_any,     \* local has_any of _ensure_images_downloaded
  downloads,   \* calls of download_sky_camera_images: <<run, start, end>>
  error,       \* exception that left main(), "none" when there is none
  last         \* what the latest loop iteration did (a trace of its calls)

vars == <<pc, run, dirExists, files, feed, idx, output, wfile, csv_file,
          listed, has_any, downloads, error, last>>

(***************************************************************************)
(* Bounds of the model.                                                    *)
(***************************************************************************)
MaxRows == 2
MaxRuns == 2

(***************************************************************************)
(* Characters and the str methods the script uses.                         *)
(***************************************************************************)
Digits == <<"0","1","2","3","4","5","6","7","8","9">>
Digit == {Digits[i] : i \in 1..10}
DigitVal(c) == (CHOOSE i \in 1..10 : Digits[i] = c) - 1

Upper == <<"A","B","C","D","E","F","G","H","I","J","K","L","M",
           "N","O","P","Q","R","S","T","U","V","W","X","Y","Z">>
Lower == <<"a","b","c","d","e","f","g","h","i","j","k","l","m",
           "n","o","p","q","r","s","t","u","v","w","x","y","z">>

\* str.lower()
lower(s) ==
  [i \in 1..Len(s) |->
     IF \E k \in 1..26 : Upper[k] = s[i]
     THEN Lower[CHOOSE k \in 1..26 : Upper[k] = s[i]]
     ELSE s[i]]

\* str.endswith(suffix)
endswith(s, suffix) ==
  /\ Len(s) >= Len(suffix)
  /\ SubSeq(s, Len(s) - Len(suffix) + 1, Len(s)) = suffix

\* s[:n]
Prefix(s, n) == SubSeq(s, 1, IF n < Len(s) THEN n ELSE Len(s))

RECURSIVE lstrip(_)
lstrip(s) == IF Len(s) > 0 /\ s[1] = " " THEN lstrip(Tail(s)) ELSE s

RECURSIVE rstrip(_)
rstrip(s) ==
  IF Len(s) > 0 /\ s[Len(s)] = " " THEN rstrip(SubSeq(s, 1, Len(s) - 1)) ELSE s

\* value of a string of decimal digits
RECURSIVE DigitsValue(_)
DigitsValue(s) ==
  IF Len(s) = 0 THEN 0
  ELSE 10 * DigitsValue(SubSeq(s, 1, Len(s) - 1)) + DigitVal(s[Len(s)])

\* whether int(s) succeeds: surrounding blanks, an optional sign, then digits
\* with single underscores allowed between two digits
IntAccepts(s) ==
  LET t == rstrip(lstrip(s))
      u == IF Len(t) > 0 /\ t[1] \in {"+", "-"} THEN Tail(t) ELSE t
  IN  /\ Len(u) > 0
      /\ \A i \in 1..Len(u) :
           \/ u[i] \in Digit
           \/ /\ u[i] = "_"
              /\ 1 < i /\ i < Len(u)
              /\ u[i-1] \in Digit /\ u[i+1] \in Digit

represents_int(s) == IntAccepts(s)

\* n in decimal, zero-padded on the left to at least width characters
RECURSIVE Pad(_, _)
Pad(n, width) ==
  IF n < 10 /\ width <= 1 THEN <<Digits[n + 1]>>
  ELSE Pad(n \div 10, width - 1) \o <<Digits[(n % 10) + 1]>>

(***************************************************************************)
(* datetime.date, datetime.datetime and datetime.timedelta.                *)
(***************************************************************************)
IsLeap(y) == (y % 4 = 0 /\ y % 100 # 0) \/ y % 400 = 0

DaysInMonth(y, m) ==
  IF m = 2 THEN (IF IsLeap(y) THEN 29 ELSE 28)
  ELSE IF m \in {4, 6, 9, 11} THEN 30 ELSE 31

date(y, m, d) == [year |-> y, month |-> m, day |-> d]

\* a <= b on datetime.date
DateLeq(a, b) ==
  \/ a.year < b.year
  \/ a.year = b.year /\ a.month < b.month
  \/ a.year = b.year /\ a.month = b.month /\ a.day <= b.day

\* d + datetime.timedelta(days=1)
NextDay(d) ==
  IF d.day < DaysInMonth(d.year, d.month) THEN date(d.year, d.month, d.day + 1)
  ELSE IF d.month < 12 THEN date(d.year, d.month + 1, 1)
  ELSE date(d.year + 1, 1, 1)

NoneValue == [tag |-> "None"]

datetime(y, m, d, H, M) ==
  [tag |-> "datetime", year |-> y, month |-> m, day |-> d, hour |-> H, minute |-> M]

\* dt.date()
DateOf(dt) == date(dt.year, dt.month, dt.day)

\* dt + datetime.timedelta(minutes=minutes), for minutes < 60
AddMinutes(dt, minutes) ==
  LET m  == dt.minute + minutes
      h  == dt.hour + (m \div 60)
      d0 == DateOf(dt)
      d1 == IF h >= 24 THEN NextDay(d0) ELSE d0
  IN  datetime(d1.year, d1.month, d1.day, h % 24, m % 60)

\* date.isoformat()
isoformat(d) ==
  Pad(d.year, 4) \o <<"-">> \o Pad(d.month, 2) \o <<"-">> \o Pad(d.day, 2)

\* dt.strftime("%H%M")
strftime_HM(dt) == Pad(dt.hour, 2) \o Pad(dt.minute, 2)

\* datetime.datetime.strptime(s, "%Y%m%dT%H%M") for the 13 characters the
\* parser passes: with 13 characters to consume every directive takes its
\* two-character alternative (%Y takes four digits); the literal T is matched
\* ignoring case; %d also accepts a blank followed by a digit.  The result is
\* NoneValue where strptime raises ValueError.
strptime(s) ==
  LET AllDigits(a, b) == \A i \in a..b : s[i] \in Digit
      dayBlank == s[7] = " " /\ s[8] \in Digit /\ s[8] # "0"
  IN  IF /\ Len(s) = 13
         /\ AllDigits(1, 6)
         /\ (AllDigits(7, 8) \/ dayBlank)
         /\ s[9] \in {"T", "t"}
         /\ AllDigits(10, 13)
      THEN LET y == DigitsValue(SubSeq(s, 1, 4))
               m == DigitsValue(SubSeq(s, 5, 6))
               d == IF dayBlank THEN DigitVal(s[8]) ELSE DigitsValue(SubSeq(s, 7, 8))
               H == DigitsValue(SubSeq(s, 10, 11))
               M == DigitsValue(SubSeq(s, 12, 13))
           IN  IF /\ y >= 1
                  /\ m \in 1..12
                  /\ d >= 1 /\ d <= DaysInMonth(y, m)
                  /\ H \in 0..23
                  /\ M \in 0..59
               THEN datetime(y, m, d, H, M)
               ELSE NoneValue
      ELSE NoneValue

(***************************************************************************)
(* Module constants.                                                       *)
(***************************************************************************)
SKY_IMAGE_DIR == <<"s","k","y","_","c","a","m","e","r","a","_","i","m","a","g","e","s">>

\* os.path.join(a, b)
path_join(a, b) == a \o <<"/">> \o b

(***************************************************************************)
(* _parse_meteoblue_datetime                                               *)
(***************************************************************************)
_parse_meteoblue_datetime(cell) ==
  IF Len(cell) = 0 \/ Len(cell) < 13 THEN NoneValue
  ELSE LET date_part == Prefix(cell, 8)
       IN  IF ~represents_int(date_part) THEN NoneValue
           ELSE strptime(Prefix(cell, 13))

(***************************************************************************)
(* _sky_image_filename: f"{dt:%Y-%m-%d-%H-%M}-0.jpg"                       *)
(***************************************************************************)
_sky_image_filename(dt) ==
  Pad(dt.year, 4) \o <<"-">> \o Pad(dt.month, 2) \o <<"-">> \o Pad(dt.day, 2)
    \o <<"-">> \o Pad(dt.hour, 2) \o <<"-">> \o Pad(dt.minute, 2)
    \o <<"-","0",".","j","p","g">>

OUTPUT_CSV == <<"t","r","a","i","n","i","n","g","_","d","a","t","a","_","w","i","t","h","_","c","l","o","u","d","_","c","o","v","e","r",".","c","s","v">>

\* os.path.dirname(p): what precedes the last "/" of p, "" when there is none
dirname(p) ==
  LET slashes == {i \in 1..Len(p) : p[i] = "/"}
  IN  IF slashes = {} THEN <<>>
      ELSE SubSeq(p, 1, (CHOOSE i \in slashes : \A j \in slashes : j <= i) - 1)

(***************************************************************************)
(* The image directory and the image pipeline of cloud_cover.py.  A file's *)
(* content says at which stage of the pipeline it fails, if at any, and    *)
(* the cover the pipeline yields otherwise, in units of 10^-7.             *)
(***************************************************************************)
Image(fail, cover) == [fail |-> fail, cover |-> cover]

NoFiles == [n \in {} |-> Image("none", 0)]

\* os.path.exists(path), for paths into SKY_IMAGE_DIR
os_path_exists(path) ==
  dirExists /\ \E n \in DOMAIN files : path_join(SKY_IMAGE_DIR, n) = path

ContentAt(path) ==
  files[CHOOSE n \in DOMAIN files : path_join(SKY_IMAGE_DIR, n) = path]

Raised(stage) == [tag |-> "raise", stage |-> stage]

load_and_trim(path) ==
  IF ContentAt(path).fail = "load" THEN Raised("load_and_trim")
  ELSE [tag |-> "trimmed", content |-> ContentAt(path)]

process_image_rb_ratio(trimmed) ==
  IF trimmed.content.fail = "ratio" THEN Raised("process_image_rb_ratio")
  ELSE [tag |-> "rb", content |-> trimmed.content]

calculate_cloud_cover(rb) ==
  IF rb.content.fail = "cover" THEN Raised("calculate_cloud_cover")
  ELSE [tag |-> "float", v |-> rb.content.cover]

(***************************************************************************)
(* _cloud_cover_from_file.  The result carries the value returned (or the  *)
(* exception leaving the function) and the pipeline stages it called.      *)
(***************************************************************************)
\* the body of the try block
TryPipeline(path) ==
  LET trimmed == load_and_trim(path)
  IN  IF trimmed.tag = "raise"
      THEN [ret |-> trimmed, stages |-> <<"load_and_trim">>]
      ELSE LET rb == process_image_rb_ratio(trimmed)
           IN  IF rb.tag = "raise"
               THEN [ret |-> rb,
                     stages |-> <<"load_and_trim", "process_image_rb_ratio">>]
               ELSE [ret |-> calculate_cloud_cover(rb),
                     stages |-> <<"load_and_trim", "process_image_rb_ratio",
                                  "calculate_cloud_cover">>]

\* _cloud_cover_from_file returning 0.0 for a missing file
_cloud_cover_from_file_ZeroOnMissing(path) ==
  IF ~os_path_exists(path) THEN [ret |-> [tag |-> "float", v |-> 0], stages |-> <<>>]
  ELSE LET body == TryPipeline(path)
       IN  IF body.ret.tag = "raise"
           THEN [ret |-> NoneValue, stages |-> body.stages]
           ELSE body

\* _cloud_cover_from_file without the except clause
_cloud_cover_from_file_NoCatch(path) ==
  IF ~os_path_exists(path) THEN [ret |-> NoneValue, stages |-> <<>>]
  ELSE TryPipeline(path)

_cloud_cover_from_file(path) ==
  IF ~os_path_exists(path) THEN [ret |-> NoneValue, stages |-> <<>>]
  ELSE LET body == TryPipeline(path)
       IN  IF body.ret.tag = "raise"
           THEN [ret |-> NoneValue, stages |-> body.stages]
           ELSE body

(***************************************************************************)
(* fmt: "" if x is None else f"{x:.6f}".  x is in units of 10^-7 and is    *)
(* rounded to 10^-6, halves to even.                                       *)
(***************************************************************************)
Format6f(v) ==
  LET q == v \div 10
      r == v % 10
      micro == IF r > 5 \/ (r = 5 /\ q % 2 = 1) THEN q + 1 ELSE q
  IN  Pad(micro \div 1000000, 1) \o <<".">> \o Pad(micro % 1000000, 6)

fmt(x) == IF x.tag = "None" THEN <<>> ELSE Format6f(x.v)

(***************************************************************************)
(* main: the date range, lines 72-87.                                      *)
(***************************************************************************)
start_date == <<"2","0","1","9","-","0","5","-","2","3">>
end_date == <<"2","0","1","9","-","0","5","-","2","3">>

\* datetime.date(int(s[:4]), int(s[5:7]), int(s[8:]))
ParseIsoDate(s) ==
  date(DigitsValue(SubSeq(s, 1, 4)), DigitsValue(SubSeq(s, 6, 7)),
       DigitsValue(SubSeq(s, 9, Len(s))))

start_d == ParseIsoDate(start_date)
end_d == ParseIsoDate(end_date)

\* while cur <= end_d: dates.append(cur); cur += delta
RECURSIVE DateRange(_, _)
DateRange(cur, end) ==
  IF DateLeq(cur, end) THEN <<cur>> \o DateRange(NextDay(cur), end) ELSE <<>>

dates == DateRange(start_d, end_d)

\* InDates comparing year and month alone
InDates_MonthOnly(d) ==
  \E i \in 1..Len(dates) : dates[i].year = d.year /\ dates[i].month = d.month

\* d in dates
InDates(d) == \E i \in 1..Len(dates) : dates[i] = d

times == {<<"0","9","0","0">>,
          <<"1","0","0","0">>,
          <<"1","1","0","0">>,
          <<"1","2","0","0">>,
          <<"1","3","0","0">>,
          <<"1","4","0","0">>,
          <<"1","5","0","0">>}

MetadataLabels == {<<"v","a","r","i","a","b","l","e">>,
                   <<"u","n","i","t">>,
                   <<"l","e","v","e","l">>}

\* ExtraLabels with the last two labels exchanged
ExtraLabels_Swapped ==
  <<<<"c","l","o","u","d","_","c","o","v","e","r","_","t">>,
    <<"c","l","o","u","d","_","c","o","v","e","r","_","t","+","1","0","m">>,
    <<"c","l","o","u","d","_","c","o","v","e","r","_","t","+","5","m">>>>

ExtraLabels == <<<<"c","l","o","u","d","_","c","o","v","e","r","_","t">>,
                <<"c","l","o","u","d","_","c","o","v","e","r","_","t","+","5","m">>,
                <<"c","l","o","u","d","_","c","o","v","e","r","_","t","+","1","0","m">>>>

Offsets == <<0, 5, 10>>

(***************************************************************************)
(* main: one iteration of the for-loop over the feed, lines 102-132.       *)
(* The result says whether a row is written and which one, which of the    *)
(* parser, the filter and the Feature Computer the iteration invoked, the  *)
(* pipeline stages each of the three feature computations called, and      *)
(* whether an exception leaves the iteration.                              *)
(***************************************************************************)
Skipped(kind, invoked) ==
  [kind |-> kind, write |-> FALSE, out |-> <<>>, invoked |-> invoked,
   stages |-> <<>>, raised |-> FALSE]

\* FeatureRow writing no row when a cover is None
FeatureRow_SkipBlank(row, dt) ==
  LET covers ==
        [k \in 1..3 |->
           _cloud_cover_from_file(
             path_join(SKY_IMAGE_DIR,
               _sky_image_filename(AddMinutes(dt, Offsets[k]))))]
      blank == \E k \in 1..3 : covers[k].ret.tag = "None"
  IN  [kind |-> "data",
       write |-> ~blank,
       out |-> IF blank THEN <<>>
               ELSE row \o [k \in 1..3 |-> fmt(covers[k].ret)],
       invoked |-> {"parser", "filter", "feature"},
       stages |-> [k \in 1..3 |-> covers[k].stages],
       raised |-> FALSE]

\* lines 122-132: the three feature computations and the written row
FeatureRow(row, dt) ==
  LET covers ==
        [k \in 1..3 |->
           _cloud_cover_from_file(
             path_join(SKY_IMAGE_DIR,
               _sky_image_filename(AddMinutes(dt, Offsets[k]))))]
      raised == \E k \in 1..3 : covers[k].ret.tag = "raise"
  IN  [kind |-> "data",
       write |-> ~raised,
       out |-> IF raised THEN <<>>
               ELSE row \o [k \in 1..3 |-> fmt(covers[k].ret)],
       invoked |-> {"parser", "filter", "feature"},
       stages |-> [k \in 1..3 |-> covers[k].stages],
       raised |-> raised]

ProcessRow(row) ==
  IF Len(row) = 0 THEN Skipped("empty", {})
  ELSE IF row[1] \in MetadataLabels
  THEN [kind |-> "meta", write |-> TRUE, out |-> row \o ExtraLabels,
        invoked |-> {}, stages |-> <<>>, raised |-> FALSE]
  ELSE LET dt == _parse_meteoblue_datetime(row[1])
       IN  IF dt.tag = "None" THEN Skipped("unparseable", {"parser"})
           ELSE IF ~InDates(DateOf(dt)) THEN Skipped("date", {"parser", "filter"})
           ELSE IF strftime_HM(dt) \notin times
           THEN Skipped("time", {"parser", "filter"})
           ELSE FeatureRow(row, dt)

\* the record of an iteration kept in the variable last
Trace(r, written) ==
  [kind |-> r.kind, invoked |-> r.invoked, stages |-> r.stages,
   written |-> written]

NoTrace == [kind |-> "none", invoked |-> {}, stages |-> <<>>, written |-> FALSE]

(***************************************************************************)
(* _ensure_images_downloaded, line 60: any(name.lower().endswith(".jpg"))  *)
(***************************************************************************)
\* HasAnyImage without lower()
HasAnyImage_CaseSensitive(names) ==
  \E name \in names : endswith(name, <<".","j","p","g">>)

HasAnyImage(names) ==
  \E name \in names : endswith(lower(name), <<".","j","p","g">>)

(***************************************************************************)
(* Inputs: feed rows, directory contents, results of the download.         *)
(***************************************************************************)
Cell_value == <<"1","5",".","2">>

RowSet ==
  { <<>>,
    <<<<"v","a","r","i","a","b","l","e">>, <<"T","e","m","p","e","r","a","t","u","r","e">>>>,
    <<<<"u","n","i","t">>>>,
    <<<<"l","e","v","e","l">>, Cell_value>>,
    <<<<"2","0","1","9","0","5","2","3","T","0","9","0","0">>, Cell_value>>,
    <<<<"2","0","1","9","0","5","2","3","t","1","0","0","0">>>>,
    <<<<"2","0","1","9","0","5","2","3","T","0","9","0","5">>, Cell_value>>,
    <<<<"2","0","1","9","0","5","2","2","T","0","9","0","0">>, Cell_value>>,
    <<<<"2","0","1","9","0","5","2","4","T","1","0","0","0">>>>,
    <<<<"2","0","1","9","0","2","3","0","T","0","9","0","0">>>>,
    <<<<" ","2","0","1","9","0","5","2","T","0","9","0","0">>>>,
    <<<<"t","i","m","e">>, Cell_value>> }

Feeds == UNION {[1..n -> RowSet] : n \in 0..MaxRows}

File_0900 == <<"2","0","1","9","-","0","5","-","2","3","-","0","9","-","0","0","-","0",".","j","p","g">>
File_0905 == <<"2","0","1","9","-","0","5","-","2","3","-","0","9","-","0","5","-","0",".","j","p","g">>
File_0910 == <<"2","0","1","9","-","0","5","-","2","3","-","0","9","-","1","0","-","0",".","j","p","g">>
File_upper == <<"O","L","D",".","J","P","G">>
File_notes == <<"n","o","t","e","s",".","t","x","t">>

InitDirs ==
  { [exists |-> FALSE, files |-> NoFiles],
    [exists |-> TRUE, files |-> NoFiles],
    [exists |-> TRUE, files |-> File_notes :> Image("load", 0)],
    [exists |-> TRUE, files |-> File_upper :> Image("none", 500000000)],
    [exists |-> TRUE,
     files |-> (File_0900 :> Image("none", 0)) @@ (File_0910 :> Image("load", 0))] }

DownloadResults ==
  { NoFiles,
    (File_0900 :> Image("none", 123456785)) @@ (File_0905 :> Image("ratio", 0))
      @@ (File_0910 :> Image("cover", 0)) }

(***************************************************************************)
(* The state when the script is started for the first time.                *)
(***************************************************************************)
InitWith(feeds) ==
  /\ pc = "start"
  /\ run = 1
  /\ \E d \in InitDirs : dirExists = d.exists /\ files = d.files
  /\ feed \in feeds
  /\ idx = 0
  /\ output = <<>>
  /\ wfile = "unopened"
  /\ csv_file = "unopened"
  /\ listed = {}
  /\ has_any = FALSE
  /\ downloads = <<>>
  /\ error = "none"
  /\ last = NoTrace

Init == InitWith(Feeds)

(***************************************************************************)
(* main, line 90: _ensure_images_downloaded(start_d, end_d), up to the     *)
(* call of download_sky_camera_images.                                     *)
(***************************************************************************)
CallDownload ==
  /\ pc' = "downloading"
  /\ downloads' = Append(downloads, <<run, isoformat(start_d), isoformat(end_d)>>)

AfterListing(names) ==
  /\ listed' = names
  /\ has_any' = HasAnyImage(names)
  /\ IF has_any' THEN pc' = "open_output" /\ UNCHANGED downloads
     ELSE CallDownload

EnsureImages ==
  /\ pc = "start"
  /\ \/ \* os.makedirs raises OSError
        /\ ~dirExists
        /\ pc' = "failed"
        /\ error' = "makedirs"
        /\ UNCHANGED <<dirExists, files, listed, has_any, downloads>>
     \/ \* the directory exists or is created; os.listdir lists it
        /\ dirExists' = TRUE
        /\ AfterListing(DOMAIN files)
        /\ UNCHANGED <<files, error>>
     \/ \* the directory is gone when os.listdir runs: FileNotFoundError
        /\ dirExists' = FALSE
        /\ files' = NoFiles
        /\ AfterListing({})
        /\ UNCHANGED error
  /\ UNCHANGED <<run, feed, idx, output, wfile, csv_file, last>>

\* download_sky_camera_images returns, having populated the directory
DownloadReturns ==
  /\ pc = "downloading"
  /\ \E got \in DownloadResults :
       /\ files' = got @@ files
       /\ dirExists' = TRUE
  /\ pc' = "open_output"
  /\ UNCHANGED <<run, feed, idx, output, wfile, csv_file, listed, has_any,
                 downloads, error, last>>

\* DownloadRaises with the exception swallowed: main goes on
DownloadRaises_Swallowed ==
  /\ pc = "downloading"
  /\ pc' = "open_output"
  /\ error' = "download"
  /\ UNCHANGED <<run, dirExists, files, feed, idx, output, wfile, csv_file,
                 listed, has_any, downloads, last>>

\* download_sky_camera_images raises; the exception leaves main
DownloadRaises ==
  /\ pc = "downloading"
  /\ pc' = "failed"
  /\ error' = "download"
  /\ UNCHANGED <<run, dirExists, files, feed, idx, output, wfile, csv_file,
                 listed, has_any, downloads, last>>

(***************************************************************************)
(* main, lines 93-100: the output file and the feed are opened.            *)
(***************************************************************************)
OpenOutput ==
  /\ pc = "open_output"
  /\ dirname(OUTPUT_CSV) = <<>>      \* out_dir is "": no directory is made
  /\ \/ /\ wfile' = "open"
        /\ output' = <<>>            \* mode "w" truncates the file
        /\ pc' = "open_feed"
        /\ UNCHANGED error
     \/ /\ pc' = "failed"
        /\ error' = "open_output"
        /\ UNCHANGED <<wfile, output>>
  /\ UNCHANGED <<run, dirExists, files, feed, idx, csv_file, listed, has_any,
                 downloads, last>>

OpenFeed ==
  /\ pc = "open_feed"
  /\ \/ /\ csv_file' = "open"
        /\ pc' = "loop"
        /\ UNCHANGED <<wfile, error>>
     \/ \* open raises; the with statement closes wfile
        /\ wfile' = "closed"
        /\ pc' = "failed"
        /\ error' = "open_feed"
        /\ UNCHANGED csv_file
  /\ UNCHANGED <<run, dirExists, files, feed, idx, output, listed, has_any,
                 downloads, last>>

(***************************************************************************)
(* main, lines 102-132: the loop over the feed.                            *)
(***************************************************************************)
\* Abort leaving the feed handle as it is
Abort_LeakFeed(e) ==
  /\ UNCHANGED csv_file
  /\ wfile' = "closed"
  /\ pc' = "failed"
  /\ error' = e

\* an exception leaves both with statements: both files are closed
Abort(e) ==
  /\ csv_file' = "closed"
  /\ wfile' = "closed"
  /\ pc' = "failed"
  /\ error' = e

\* Iterate putting the written row in front of the output
Iterate_Prepend ==
  /\ pc = "loop"
  /\ idx < Len(feed)
  /\ LET r == ProcessRow(feed[idx + 1])
     IN  /\ idx' = idx + 1
         /\ output' = IF r.write THEN <<r.out>> \o output ELSE output
         /\ last' = Trace(r, r.write)
         /\ UNCHANGED <<pc, wfile, csv_file, error>>
  /\ UNCHANGED <<run, dirExists, files, feed, listed, has_any, downloads>>

\* one iteration: the next row is read and processed
Iterate ==
  /\ pc = "loop"
  /\ idx < Len(feed)
  /\ LET r == ProcessRow(feed[idx + 1])
     IN  IF r.raised
         THEN /\ Abort("pipeline")
              /\ last' = Trace(r, FALSE)
              /\ UNCHANGED <<idx, output>>
         ELSE /\ idx' = idx + 1
              /\ output' = IF r.write THEN Append(output, r.out) ELSE output
              /\ last' = Trace(r, r.write)
              /\ UNCHANGED <<pc, wfile, csv_file, error>>
  /\ UNCHANGED <<run, dirExists, files, feed, listed, has_any, downloads>>

\* writer.writerow raises OSError
WriteFails ==
  /\ pc = "loop"
  /\ idx < Len(feed)
  /\ LET r == ProcessRow(feed[idx + 1])
     IN  /\ r.write
         /\ last' = Trace(r, FALSE)
  /\ Abort("write")
  /\ UNCHANGED <<run, dirExists, files, feed, idx, output, listed, has_any,
                 downloads>>

\* reading the next row from the feed raises
ReadFails ==
  /\ pc = "loop"
  /\ Abort("read")
  /\ UNCHANGED <<run, dirExists, files, feed, idx, output, listed, has_any,
                 downloads, last>>

\* the feed is exhausted: both with statements are left
EndOfFeed ==
  /\ pc = "loop"
  /\ idx = Len(feed)
  /\ csv_file' = "closed"
  /\ wfile' = "closed"
  /\ pc' = "done"
  /\ UNCHANGED <<run, dirExists, files, feed, idx, output, listed, has_any,
                 downloads, error, last>>

(***************************************************************************)
(* Line 143: the script is run again; the image directory and the output   *)
(* file stay on disk.                                                      *)
(***************************************************************************)
NextRun ==
  /\ pc \in {"done", "failed"}
  /\ run < MaxRuns
  /\ run' = run + 1
  /\ pc' = "start"
  /\ idx' = 0
  /\ wfile' = "unopened"
  /\ csv_file' = "unopened"
  /\ listed' = {}
  /\ has_any' = FALSE
  /\ error' = "none"
  /\ last' = NoTrace
  /\ UNCHANGED <<dirExists, files, feed, output, downloads>>

Next ==
  \/ EnsureImages
  \/ DownloadReturns
  \/ DownloadRaises
  \/ OpenOutput
  \/ OpenFeed
  \/ Iterate
  \/ WriteFails
  \/ ReadFails
  \/ EndOfFeed

Spec == Init /\ [][Next]_vars

\* two consecutive runs of the script over a few feeds
RerunFeeds ==
  { <<>>,
    << <<<<"v","a","r","i","a","b","l","e">>, <<"T","e","m","p","e","r","a","t","u","r","e">>>>, <<<<"2","0","1","9","0","5","2","3","T","0","9","0","0">>, Cell_value>> >> }

InitRerun == InitWith(RerunFeeds)

NextRerun == Next \/ NextRun

SpecRerun == InitRerun /\ [][NextRerun]_vars

(***************************************************************************)
(* Properties.                                                             *)
(***************************************************************************)
\* the row the latest loop iteration worked on (when last.kind # "none"):
\* an iteration that an exception ended did not advance idx
LastRow ==
  IF pc = "failed" /\ error \in {"write", "pipeline"} THEN feed[idx + 1]
  ELSE feed[idx]

\* the row the latest iteration wrote (when last.written)
LastOut == output[Len(output)]

\* a first cell that parses, dated within [start_d, end_d], at a full hour
\* from 09:00 to 15:00
InRangeCell(cell) ==
  LET dt == _parse_meteoblue_datetime(cell)
  IN  /\ dt.tag = "datetime"
      /\ DateLeq(start_d, DateOf(dt))
      /\ DateLeq(DateOf(dt), end_d)
      /\ dt.hour \in 9..15
      /\ dt.minute = 0

IsLabelRow(row) ==
  Len(row) > 0 /\ row[1] \in {<<"v","a","r","i","a","b","l","e">>, <<"u","n","i","t">>, <<"l","e","v","e","l">>}

IsInRangeRow(row) == Len(row) > 0 /\ ~IsLabelRow(row) /\ InRangeCell(row[1])

IsRetainedRow(row) == IsLabelRow(row) \/ IsInRangeRow(row)

IsDataOut(row) == ~IsLabelRow(row)

\* out is row followed by exactly three more cells
ExtendsByThree(out, row) ==
  /\ Len(out) = Len(row) + 3
  /\ SubSeq(out, 1, Len(row)) = row

\* the name of the image of the k-th offset of a data row
OffsetFile(row, k) ==
  _sky_image_filename(AddMinutes(_parse_meteoblue_datetime(row[1]), Offsets[k]))

FileMissing(name) == ~dirExists \/ name \notin DOMAIN files

\* a name whose last four characters are .jpg in any mix of cases
IsJpgName(name) ==
  /\ Len(name) >= 4
  /\ name[Len(name) - 3] = "."
  /\ name[Len(name) - 2] \in {"j", "J"}
  /\ name[Len(name) - 1] \in {"p", "P"}
  /\ name[Len(name)] \in {"g", "G"}

DownloadsOfRun(r) == SelectSeq(downloads, LAMBDA c : c[1] = r)

\* C1: a written row whose first cell is no metadata label has a first cell
\* that parses, is dated within [start, end] and is at an allowed time of
\* day; an iteration over an unparseable, out-of-range or wrong-time row
\* writes nothing.
C1_OnlyInRangeRowsWritten ==
  /\ \A i \in 1..Len(output) :
       /\ Len(output[i]) > 0
       /\ ~IsLabelRow(output[i]) => InRangeCell(output[i][1])
  /\ last.kind # "none" /\ ~IsRetainedRow(LastRow) => ~last.written

C1_Witness ==
  /\ pc = "done"
  /\ Len(feed) = 2
  /\ IsInRangeRow(feed[1])
  /\ Len(feed[2]) > 0
  /\ _parse_meteoblue_datetime(feed[2][1]).tag = "datetime"
  /\ ~IsRetainedRow(feed[2])
  /\ Len(output) = 1

\* C2: when a run ends without an I/O error, the data rows of the output are
\* the in-range rows of the feed, one for one, each with its cells unchanged
\* and exactly three cells appended.
C2_EveryInRangeRowWrittenOnce ==
  pc = "done" =>
    LET want == SelectSeq(feed, IsInRangeRow)
        got  == SelectSeq(output, IsDataOut)
    IN  /\ Len(got) = Len(want)
        /\ \A i \in 1..Len(want) : ExtendsByThree(got[i], want[i])

\* a row written with one cover present, one image missing, one pipeline failing
C2_Witness ==
  /\ pc = "done"
  /\ last.kind = "data"
  /\ last.written
  /\ Len(last.stages[1]) = 3 /\ LastOut[Len(LastRow) + 1] # <<>>
  /\ last.stages[2] = <<>>
  /\ Len(last.stages[3]) = 1 /\ LastOut[Len(LastRow) + 3] = <<>>

\* C3: for an in-range data row and each offset k, when the image of t+k is
\* missing the pipeline is not called for it and the k-th appended cell is
\* the empty string, whatever the other two are; the row is written (unless
\* the write itself fails).
C3_MissingImageGivesBlank ==
  last.kind = "data" =>
    /\ error # "write" => last.written
    /\ \A k \in 1..3 :
         FileMissing(OffsetFile(LastRow, k)) =>
           /\ last.stages[k] = <<>>
           /\ last.written =>
                /\ ExtendsByThree(LastOut, LastRow)
                /\ LastOut[Len(LastRow) + k] = <<>>

C3_Witness ==
  /\ last.kind = "data"
  /\ last.written
  /\ FileMissing(OffsetFile(LastRow, 2))
  /\ ~FileMissing(OffsetFile(LastRow, 1))
  /\ LastOut[Len(LastRow) + 1] = <<"0",".","0","0","0","0","0","0">>
  /\ LastOut[Len(LastRow) + 2] = <<>>

C4_Labels ==
  <<<<"c","l","o","u","d","_","c","o","v","e","r","_","t">>,
    <<"c","l","o","u","d","_","c","o","v","e","r","_","t","+","5","m">>,
    <<"c","l","o","u","d","_","c","o","v","e","r","_","t","+","1","0","m">>>>

\* C4: a row whose first cell is variable, unit or level is written as its
\* cells followed by the three labels, in order, and its iteration invokes
\* neither the parser, the filter nor the Feature Computer.
C4_MetadataRowPassedThrough ==
  last.kind # "none" /\ IsLabelRow(LastRow) =>
    /\ last.invoked = {}
    /\ last.stages = <<>>
    /\ error # "write" => last.written
    /\ last.written => LastOut = LastRow \o C4_Labels

C4_Witness ==
  /\ idx = 2
  /\ IsInRangeRow(feed[1])
  /\ IsLabelRow(feed[2])
  /\ Len(feed[2]) = 2
  /\ last.written
  /\ Len(output) = 2

\* C5: a failure of any stage of the pipeline on an existing image never
\* leaves the Feature Computer: the cell is blank, the row is written and
\* the loop goes on; no run ends on a pipeline exception.
C5_PipelineFailureIsAbsent ==
  /\ error # "pipeline"
  /\ last.kind = "data" =>
       \A k \in 1..3 :
         (/\ ~FileMissing(OffsetFile(LastRow, k))
          /\ files[OffsetFile(LastRow, k)].fail # "none") =>
           /\ last.stages[k] # <<>>
           /\ error # "write" => last.written
           /\ last.written => LastOut[Len(LastRow) + k] = <<>>
           /\ pc \in {"loop", "done"} \/ error \in {"write", "read"}

\* two rows at 09:00 are both written although the images of 09:05 and 09:10
\* fail in the second and the third stage
C5_Witness ==
  /\ pc = "loop"
  /\ idx = 2
  /\ feed[1] = feed[2]
  /\ last.kind = "data"
  /\ last.written
  /\ Len(output) = 2
  /\ Len(last.stages[2]) = 2
  /\ Len(last.stages[3]) = 3
  /\ LastOut[Len(LastRow) + 2] = <<>>
  /\ LastOut[Len(LastRow) + 3] = <<>>

\* C6: once the trigger has listed the directory, the collaborator has been
\* called in this run exactly once, with (start, end) as ISO strings, if no
\* listed name ends in .jpg (in any case), and not at all otherwise.
C6_DownloadIffNoImage ==
  pc # "start" /\ error # "makedirs" =>
    IF \E name \in listed : IsJpgName(name)
    THEN DownloadsOfRun(run) = <<>>
    ELSE DownloadsOfRun(run) = << <<run, start_date, end_date>> >>

\* the directory holds one image, named in upper case, and none of the range
C6_Witness ==
  /\ pc = "done"
  /\ listed = {File_upper}
  /\ downloads = <<>>
  /\ FileMissing(File_0900)

\* C7: in the second of two consecutive runs, when the directory the trigger
\* lists holds an image, the collaborator is not called: over the two runs it
\* is called at most once.
C7_SecondRunDoesNotDownload ==
  run = 2 /\ pc # "start" /\ error # "makedirs"
    /\ (\E name \in listed : IsJpgName(name)) =>
      /\ DownloadsOfRun(2) = <<>>
      /\ Len(downloads) <= 1

\* the first run downloaded the images, the second run found them
C7_Witness ==
  /\ run = 2
  /\ pc = "done"
  /\ Len(downloads) = 1
  /\ downloads[1][1] = 1
  /\ File_0905 \in listed

\* no feed row has been read and no file opened or written in this run
Untouched ==
  /\ wfile = "unopened"
  /\ csv_file = "unopened"
  /\ idx = 0
  /\ last = NoTrace
  /\ output = <<>>

\* C8: the collaborator is called only while no row has been read and no
\* file opened; while the trigger runs, and after it failed, nothing is read
\* or written.
C8_AcquisitionBeforeRows ==
  [][ /\ downloads' # downloads => Untouched /\ Untouched'
      /\ (pc' \in {"start", "downloading"} \/ error' \in {"makedirs", "download"})
           => Untouched' ]_vars

C8_Witness ==
  /\ pc = "done"
  /\ Len(downloads) = 1
  /\ idx = 2
  /\ Len(output) = 2

\* C9: when main has stopped no handle is open: both are closed after the
\* feed is exhausted, every opened one is closed after an error, and an
\* error always ends the run.
C9_HandlesClosed ==
  /\ pc = "done" => error = "none" /\ wfile = "closed" /\ csv_file = "closed"
  /\ pc = "failed" => error # "none" /\ wfile # "open" /\ csv_file # "open"
  /\ error \in {"open_feed", "read", "write"} => wfile = "closed"
  /\ error \in {"read", "write"} => csv_file = "closed"
  /\ error # "none" => pc = "failed"

C9_Witness ==
  /\ pc = "failed"
  /\ error = "write"
  /\ Len(output) = 1
  /\ wfile = "closed"
  /\ csv_file = "closed"

====
